---- MODULE Spec2Model ----
(***************************************************************************)
(* A model of ruuvitag-form (src/src/ruuvitag/form/__init__.py): one run   *)
(* of the command line program, from the argument vector to the exit code. *)
(* The run is a straight line: parse_arguments, fetch_tags, then the       *)
(* format dispatch of run.  The argument vector and the server's answer    *)
(* are the inputs; standard output, standard error, the exit code and the  *)
(* number of HTTP requests are what can be observed.                       *)
(***************************************************************************)
EXTENDS Integers, Sequences, FiniteSets, TLC

\* ------------------------------------------------------------------ bounds

\* Longest argument vector explored (argv[1:]).
MaxArgs == 3
\* Largest number of entries in the server's JSON object.
MaxTags == 2

\* ------------------------------------------------------------ python values

\* Python's None, for Arguments.format and Arguments.mac.  It cannot collide
\* with a stored format (lower-cased) or a stored mac (upper-cased).
None == "<None>"

\* A JSON number, kept in thousandths, and a placeholder string.
Num(m) == [num |-> TRUE, milli |-> m]
Str(s) == [num |-> FALSE, str |-> s]

\* os.path.basename(argv[0])
Prog == "ruuvitag-form"

\* --------------------------------------------------------- ArgparseFaux.error

\* The text error() prints (the quotes around the command of the hint are
\* left out).
ErrorText(message) ==
    Prog \o ": " \o message \o "\nTry " \o Prog \o " --help for more information."

helpstring == "usage: " \o Prog \o " [OPTIONS]... ADDRESS"

\* ------------------------------------------------------------- str.upper/lower

\* str.upper() on the strings --show is given in the explored runs.
Upper(s) ==
    CASE s = "aa:bb" -> "AA:BB"
      [] OTHER -> s

\* str.lower() on the strings --format / -F is given in the explored runs.
Lower(s) ==
    CASE s = "InfluxDB" -> "influxdb"
      [] OTHER -> s

\* ------------------------------------------------------------------- getopt

\* The words an argument vector is built from.
Tokens ==
    { "-h", "--help", "-F", "--format=InfluxDB", "--format=xml",
      "--show=aa:bb", "--show=", "--bogus", "waybar", "http://host" }

Argvs == UNION { [1..n -> Tokens] : n \in 0..MaxArgs }

\* How getopt reads one word against "hF:" and ["help","format=","show="].
Lex(tok) ==
    CASE tok = "-h"                -> [kind |-> "flag",   opt |-> "-h",       arg |-> ""]
      [] tok = "--help"            -> [kind |-> "flag",   opt |-> "--help",   arg |-> ""]
      [] tok = "-F"                -> [kind |-> "needs",  opt |-> "-F",       arg |-> ""]
      [] tok = "--format=InfluxDB" -> [kind |-> "valued", opt |-> "--format", arg |-> "InfluxDB"]
      [] tok = "--format=xml"      -> [kind |-> "valued", opt |-> "--format", arg |-> "xml"]
      [] tok = "--show=aa:bb"      -> [kind |-> "valued", opt |-> "--show",   arg |-> "aa:bb"]
      [] tok = "--show="           -> [kind |-> "valued", opt |-> "--show",   arg |-> ""]
      [] tok = "--bogus"           -> [kind |-> "unknown", opt |-> "--bogus", arg |-> ""]
      [] OTHER                     -> [kind |-> "positional", opt |-> "",     arg |-> tok]

\* getopt.gnu_getopt(argv[1:], ...): options and positionals may be mixed;
\* the result is the option list and the positionals, or a GetoptError.
RECURSIVE gnu_getopt(_, _, _)
gnu_getopt(rest, opts, address) ==
    IF rest = <<>> THEN [err |-> "", opts |-> opts, address |-> address]
    ELSE LET l == Lex(Head(rest)) IN
         CASE l.kind = "unknown" ->
                [err |-> "option " \o l.opt \o " not recognized", opts |-> opts, address |-> address]
           [] l.kind = "needs" ->
                IF Len(rest) < 2
                THEN [err |-> "option " \o l.opt \o " requires argument", opts |-> opts, address |-> address]
                ELSE gnu_getopt(Tail(Tail(rest)),
                                Append(opts, [opt |-> l.opt, arg |-> rest[2]]), address)
           [] l.kind = "positional" ->
                gnu_getopt(Tail(rest), opts, Append(address, l.arg))
           [] OTHER ->
                gnu_getopt(Tail(rest), Append(opts, [opt |-> l.opt, arg |-> l.arg]), address)

\* The loop over opts of parse_arguments, up to the first -h/--help.
RECURSIVE ApplyOpts(_, _)
ApplyOpts(opts, a) ==
    IF opts = <<>> THEN [help |-> FALSE, args |-> a]
    ELSE LET o == Head(opts) IN
         IF o.opt \in {"-h", "--help"} THEN [help |-> TRUE, args |-> a]
         ELSE IF o.opt = "--show"
              THEN ApplyOpts(Tail(opts), [a EXCEPT !.mac = Upper(o.arg)])
         ELSE IF o.opt \in {"-F", "--format"}
              THEN ApplyOpts(Tail(opts), [a EXCEPT !.format = Lower(o.arg)])
         ELSE ApplyOpts(Tail(opts), a)

\* ---------------------------------------------------------------- Tag

\* Tag(): every argument at its default.
DefaultTag ==
    [mac |-> "--:--:--:--:--:--", name |-> "Unknown",
     humidity |-> Str("-"), temperature |-> Str("-"), pressure |-> Str("-"),
     acceleration |-> [x |-> Num(0), y |-> Num(0), z |-> Num(0)],
     battery |-> Str("?"), time |-> "?"]

\* format(v, ".2f"): a number rounded to two decimals; a str has no 'f'
\* format code, so Python raises ValueError.  (No explored number is a tie.)
Format2f(v) ==
    IF ~v.num THEN [ok |-> FALSE, text |-> ""]
    ELSE LET h  == (v.milli + 5) \div 10
             ip == h \div 100
             fp == h % 100
         IN  [ok |-> TRUE,
              text |-> ToString(ip) \o "." \o (IF fp < 10 THEN "0" ELSE "") \o ToString(fp)]

\* Tag.__repr__
TagRepr(tag) ==
    LET t == Format2f(tag.temperature)
        h == Format2f(tag.humidity)
        p == Format2f(tag.pressure)
    IN  IF t.ok /\ h.ok /\ p.ok
        THEN [ok |-> TRUE, text |-> t.text \o "C " \o h.text \o "% " \o p.text \o "hPa"]
        ELSE [ok |-> FALSE, text |-> ""]

\* ------------------------------------------------------------ the server

\* The fields fetch_tags reads from every entry.
RequiredFields ==
    { "mac", "name", "humidity", "temperature", "pressure",
      "acceleration_x", "acceleration_y", "acceleration_z", "battery", "time" }

Macs == { "AA:BB", "CC:DD", "EE:FF" }

\* One complete reading per device.
Reading(k) ==
    CASE k = "AA:BB" ->
           [mac |-> k, name |-> "Living room", humidity |-> Num(40196),
            temperature |-> Num(21504), pressure |-> Num(1013000),
            acceleration_x |-> Num(12), acceleration_y |-> Num(28),
            acceleration_z |-> Num(1016), battery |-> Num(2977),
            time |-> "1970-01-01T00:00:01+00:00"]
      [] k = "CC:DD" ->
           [mac |-> k, name |-> "Sauna", humidity |-> Num(12340),
            temperature |-> Num(65250), pressure |-> Num(1009870),
            acceleration_x |-> Num(1000), acceleration_y |-> Num(4),
            acceleration_z |-> Num(8), battery |-> Num(3011),
            time |-> "1970-01-01T00:00:02+02:00"]
      [] OTHER ->
           [mac |-> k, name |-> "Balcony", humidity |-> Num(88001),
            temperature |-> Num(3999), pressure |-> Num(998120),
            acceleration_x |-> Num(0), acceleration_y |-> Num(0),
            acceleration_z |-> Num(1000), battery |-> Num(2650),
            time |-> "1970-01-01T00:00:02"]

\* What an entry of the answer can look like: a complete numeric reading, one
\* with a placeholder time, one with a placeholder temperature, one that
\* lacks a field.
Variants == { "ok", "badtime", "placeholder", "missing" }

\* The field the incomplete entry of a device lacks.
MissingField(k) ==
    CASE k = "AA:BB" -> "battery"
      [] k = "CC:DD" -> "mac"
      [] OTHER       -> "time"

ServerData(k, v) ==
    CASE v = "badtime"     -> [Reading(k) EXCEPT !.time = "?"]
      [] v = "placeholder" -> [Reading(k) EXCEPT !.temperature = Str("-")]
      [] v = "missing"     -> [f \in RequiredFields \ {MissingField(k)} |-> Reading(k)[f]]
      [] OTHER             -> Reading(k)

\* A JSON object has no duplicate keys once decoded.
KeySeqs ==
    { ks \in UNION { [1..n -> Macs] : n \in 0..MaxTags } :
        \A i, j \in DOMAIN ks : i # j => ks[i] # ks[j] }

Bodies ==
    UNION { { [i \in DOMAIN ks |-> [key |-> ks[i], data |-> ServerData(ks[i], vs[i])]] :
                vs \in [DOMAIN ks -> Variants] } : ks \in KeySeqs }

\* The outcome of c.perform() and what the body holds.
Responses ==
    { [kind |-> "pycurl.error", entries |-> <<>>],
      [kind |-> "garbage", entries |-> <<>>] }
    \cup { [kind |-> "json", entries |-> b] : b \in Bodies }

\* The Tag(...) call of fetch_tags; data[f] of an absent f raises KeyError.
MakeTag(data) ==
    [mac |-> data["mac"], name |-> data["name"], humidity |-> data["humidity"],
     temperature |-> data["temperature"], pressure |-> data["pressure"],
     acceleration |-> [x |-> data["acceleration_x"], y |-> data["acceleration_y"],
                       z |-> data["acceleration_z"]],
     battery |-> data["battery"], time |-> data["time"]]

Complete(data) == RequiredFields \subseteq DOMAIN data

\* fetch_tags reading every field with a default (data.get) instead of
\* data[...]: an entry that lacks a field becomes the default Tag.
Decode_Defaults(entries) ==
    [ok |-> TRUE,
     tags |-> [i \in DOMAIN entries |->
                 [mac |-> entries[i].key,
                  tag |-> IF Complete(entries[i].data)
                          THEN MakeTag(entries[i].data) ELSE DefaultTag]]]

\* The loop over tags_json.items(): the TagSet in the server's order, or the
\* KeyError of the first entry that lacks a field.
Decode(entries) ==
    IF \A i \in DOMAIN entries : Complete(entries[i].data)
    THEN [ok |-> TRUE,
          tags |-> [i \in DOMAIN entries |->
                      [mac |-> entries[i].key, tag |-> MakeTag(entries[i].data)]]]
    ELSE [ok |-> FALSE, tags |-> <<>>]

\* ------------------------------------------------------------- the TagSet

Keys(ts) == { ts[i].mac : i \in DOMAIN ts }

\* tags[mac]; the caller has checked mac \in Keys(ts), else KeyError.
Lookup(ts, mac) == ts[CHOOSE i \in DOMAIN ts : ts[i].mac = mac].tag

\* ------------------------------------------------------------ timestamps

\* datetime.fromisoformat: the wall-clock seconds since 1970-01-01T00:00:00
\* and the offset the string carries, or ValueError.
fromisoformat(s) ==
    CASE s = "1970-01-01T00:00:01+00:00" -> [ok |-> TRUE, wall |-> 1, offset |-> 0]
      [] s = "1970-01-01T00:00:02+02:00" -> [ok |-> TRUE, wall |-> 2, offset |-> 7200]
      [] s = "1970-01-01T00:00:02"       -> [ok |-> TRUE, wall |-> 2, offset |-> 0]
      [] OTHER                           -> [ok |-> FALSE, wall |-> 0, offset |-> 0]

\* replace(tzinfo=utc) drops the offset; int(timestamp() * 1000000000).
Timestamp(d) == d.wall * 1000000000

\* The seven print calls with the first two in the other order.
InfluxLines_Swapped(mac, tag, timestamp) ==
    LET L(m, f, v) == [kind |-> "line", measurement |-> m, mac |-> mac,
                       field |-> f, value |-> v, timestamp |-> timestamp]
    IN  << L("humidity", "humidity_percent", tag.humidity),
           L("temperature", "temp_C", tag.temperature),
           L("pressure", "pressure_hPa", tag.pressure),
           L("acceleration_x", "acceleration_g", tag.acceleration.x),
           L("acceleration_y", "acceleration_g", tag.acceleration.y),
           L("acceleration_z", "acceleration_g", tag.acceleration.z),
           L("battery", "battery_volt", tag.battery) >>

\* The seven print calls for one record.
InfluxLines(mac, tag, timestamp) ==
    LET L(m, f, v) == [kind |-> "line", measurement |-> m, mac |-> mac,
                       field |-> f, value |-> v, timestamp |-> timestamp]
    IN  << L("temperature", "temp_C", tag.temperature),
           L("humidity", "humidity_percent", tag.humidity),
           L("pressure", "pressure_hPa", tag.pressure),
           L("acceleration_x", "acceleration_g", tag.acceleration.x),
           L("acceleration_y", "acceleration_g", tag.acceleration.y),
           L("acceleration_z", "acceleration_g", tag.acceleration.z),
           L("battery", "battery_volt", tag.battery) >>

\* The influxdb loop of run from record i on: the lines printed, and whether
\* fromisoformat raised (the loop stops there, what was printed stays).
RECURSIVE InfluxLoop(_, _, _)
InfluxLoop(ts, i, out) ==
    IF i > Len(ts) THEN [ok |-> TRUE, out |-> out]
    ELSE LET time_d == fromisoformat(ts[i].tag.time) IN
         IF ~time_d.ok THEN [ok |-> FALSE, out |-> out]
         ELSE InfluxLoop(ts, i + 1,
                         out \o InfluxLines(ts[i].mac, ts[i].tag, Timestamp(time_d)))

\* '\n'.join([f'{tag.name}: {tag}' for mac,tag in tags.items()]) from record i.
RECURSIVE Tooltip(_, _)
Tooltip(ts, i) ==
    IF i > Len(ts) THEN ""
    ELSE ts[i].tag.name \o ": " \o TagRepr(ts[i].tag).text
         \o (IF i < Len(ts) THEN "\n" ELSE "") \o Tooltip(ts, i + 1)

AllRepr(ts) == \A i \in DOMAIN ts : TagRepr(ts[i].tag).ok

\* ---------------------------------------------------------------- the state

VARIABLES
    pc,         \* where the run is: "start", "parsed", "fetched", "exit"
    argv,       \* argv[1:]
    args,       \* Arguments: format, mac, address
    response,   \* what the server answered to the GET
    tags,       \* the TagSet, in insertion order: <<[mac, tag], ...>>
    stdout,     \* what was written to standard output, in order
    stderr,     \* what was written to standard error, in order
    exitcode,   \* -1 while running, then the process's exit code
    exception,  \* the uncaught exception that ended the run, or ""
    gets        \* number of HTTP GETs issued

vars == <<pc, argv, args, response, tags, stdout, stderr, exitcode, exception, gets>>

NoResponse == [kind |-> "none", entries |-> <<>>]

Init ==
    /\ pc = "start"
    /\ argv \in Argvs
    /\ args = [format |-> None, mac |-> None, address |-> None]
    /\ response = NoResponse
    /\ tags = <<>>
    /\ stdout = <<>>
    /\ stderr = <<>>
    /\ exitcode = -1
    /\ exception = ""
    /\ gets = 0

\* sys.exit(code)
Exit(code) ==
    /\ pc' = "exit"
    /\ exitcode' = code
    /\ exception' = ""

\* An exception nobody catches: traceback on standard error, exit code 1.
Crash(exc) ==
    /\ pc' = "exit"
    /\ exitcode' = 1
    /\ exception' = exc
    /\ stderr' = Append(stderr, "Traceback: " \o exc)

\* ArgparseFaux.error with the file=sys.stderr of its print forgotten.
ParserError_Stdout(message) ==
    /\ stdout' = Append(stdout, [kind |-> "error", text |-> ErrorText(message)])
    /\ Exit(2)
    /\ UNCHANGED stderr

\* ArgparseFaux.error: the message and the hint on standard error, exit 2.
ParserError(message) ==
    /\ stderr' = Append(stderr, ErrorText(message))
    /\ Exit(2)
    /\ UNCHANGED stdout

\* ---------------------------------------------------------- parse_arguments

\* What getopt makes of the argument vector, and what the option loop would
\* make of its options.
Got == gnu_getopt(argv, <<>>, <<>>)
Opts == ApplyOpts(Got.opts, [format |-> None, mac |-> None,
                             address |-> IF Got.address = <<>> THEN None
                                         ELSE Got.address[Len(Got.address)]])

parse_arguments ==
    /\ pc = "start"
    /\ IF Got.err # ""
       THEN /\ ParserError(Got.err)
            /\ UNCHANGED args
       ELSE IF Got.address = <<>>
       THEN /\ ParserError("Need to specify an url to a ruuvitag-hark server.")
            /\ UNCHANGED args
       ELSE IF Opts.help
       THEN /\ stdout' = Append(stdout, [kind |-> "help", text |-> helpstring])
            /\ Exit(0)
            /\ UNCHANGED <<args, stderr>>
       ELSE /\ args' = Opts.args
            /\ pc' = "parsed"
            /\ UNCHANGED <<stdout, stderr, exitcode, exception>>
    /\ UNCHANGED <<argv, response, tags, gets>>

\* --------------------------------------------------------------- fetch_tags

\* c.perform() called again after the first call.
Perform_Retry(r) ==
    /\ gets' = gets + 2
    /\ response' = r

\* c.perform(): the one GET to <address>/data and its outcome.
Perform(r) ==
    /\ gets' = gets + 1
    /\ response' = r

fetch_tags ==
    /\ pc = "parsed"
    /\ \E r \in Responses :
        /\ Perform(r)
        /\ CASE r.kind = "pycurl.error" ->
                  /\ stderr' = Append(stderr, "pycurl.error")
                  /\ tags' = <<>>
                  /\ pc' = "fetched"
                  /\ UNCHANGED <<exitcode, exception>>
             [] r.kind = "garbage" ->
                  /\ Crash("JSONDecodeError")
                  /\ UNCHANGED tags
             [] OTHER ->
                  IF Decode(r.entries).ok
                  THEN /\ tags' = Decode(r.entries).tags
                       /\ pc' = "fetched"
                       /\ UNCHANGED <<stderr, exitcode, exception>>
                  ELSE /\ Crash("KeyError")
                       /\ UNCHANGED tags
    /\ UNCHANGED <<argv, args, stdout>>

\* ---------------------------------------------------------------------- run

\* Python truth of args.mac: None and "" are false.
Truthy(m) == m # None /\ m # ""

\* The first key taken whether or not --show was given.
EffectiveMac_First == IF tags # <<>> THEN tags[1].mac ELSE args.mac

\* if tags and not args.mac: args.mac = next(iter(tags))
EffectiveMac == IF tags # <<>> /\ ~Truthy(args.mac) THEN tags[1].mac ELSE args.mac

\* Every format that is not influxdb rendered as waybar.
IsWaybar_Fallback(format) == format # "influxdb"

IsWaybar(format) == format = "waybar" \/ format = None

WaybarObject(ts, mac) ==
    [kind |-> "json",
     obj |-> [text |-> TagRepr(Lookup(ts, mac)).text,
              tooltip |-> Tooltip(ts, 1),
              class |-> "ruuvitag",
              percentage |-> Lookup(ts, mac).humidity]]

RenderWaybar ==
    /\ IsWaybar(args.format)
    /\ IF tags # <<>>
       THEN IF EffectiveMac \notin Keys(tags)
            THEN ParserError("Tag \"" \o EffectiveMac \o "\" does not exist")
            ELSE IF ~AllRepr(tags)
            THEN /\ Crash("ValueError")
                 /\ UNCHANGED stdout
            ELSE /\ stdout' = Append(stdout, WaybarObject(tags, EffectiveMac))
                 /\ Exit(0)
                 /\ UNCHANGED stderr
       ELSE IF ~TagRepr(DefaultTag).ok
            THEN /\ Crash("ValueError")
                 /\ UNCHANGED stdout
            ELSE /\ stdout' = Append(stdout,
                        [kind |-> "json",
                         obj |-> [text |-> TagRepr(DefaultTag).text,
                                  class |-> "ruuvitag", percentage |-> Num(0)]])
                 /\ Exit(0)
                 /\ UNCHANGED stderr

RenderInfluxdb ==
    /\ ~IsWaybar(args.format)
    /\ args.format = "influxdb"
    /\ LET r == InfluxLoop(tags, 1, <<>>) IN
        /\ stdout' = stdout \o r.out
        /\ IF r.ok
           THEN Exit(0) /\ UNCHANGED stderr
           ELSE Crash("ValueError")

RenderUnsupported ==
    /\ ~IsWaybar(args.format)
    /\ args.format # "influxdb"
    /\ ParserError(args.format \o " is currently not supported")

run ==
    /\ pc = "fetched"
    /\ args' = [args EXCEPT !.mac = EffectiveMac]
    /\ (RenderWaybar \/ RenderInfluxdb \/ RenderUnsupported)
    /\ UNCHANGED <<argv, response, tags, gets>>

Next == parse_arguments \/ fetch_tags \/ run

Spec == Init /\ [][Next]_vars

\* ------------------------------------------------------------ vocabulary

\* The --show MAC as stored (upper-cased), None when --show was not given.
ShowMac == Opts.args.mac

\* -h or --help is among the options getopt found.
HelpAsked == \E i \in DOMAIN Got.opts : Got.opts[i].opt \in {"-h", "--help"}

\* parse_arguments returns to run.
ParseSucceeds == Got.err = "" /\ Got.address # <<>> /\ ~Opts.help

\* fetch_tags returned to run: with the empty TagSet of a transport failure,
\* or with the decoded TagSet.
FetchReturned ==
    \/ response.kind = "pycurl.error"
    \/ /\ response.kind = "json"
       /\ \A i \in DOMAIN response.entries : Complete(response.entries[i].data)

ServerKeys == { response.entries[i].key : i \in DOMAIN response.entries }

Said(text) == \E i \in DOMAIN stderr : stderr[i] = text

UnknownMacText(m) == ErrorText("Tag \"" \o m \o "\" does not exist")

UnsupportedText(f) == ErrorText(f \o " is currently not supported")

\* ---------------------------------------------------------------- claims

\* C1: when parsing succeeds, the format is waybar or unset and the fetch
\* fails with a transport error, the run prints the error on standard error,
\* writes the default waybar object (class "ruuvitag", percentage 0, no
\* tooltip key) on standard output and exits 0.
C1_TransportFailureDefaultRendering ==
    (pc = "exit" /\ response.kind = "pycurl.error" /\ IsWaybar(args.format))
    => /\ exitcode = 0
       /\ Said("pycurl.error")
       /\ Len(stdout) = 1
       /\ stdout[1].kind = "json"
       /\ DOMAIN stdout[1].obj = {"text", "class", "percentage"}
       /\ stdout[1].obj.class = "ruuvitag"
       /\ stdout[1].obj.percentage = Num(0)

\* C2: an argument vector getopt accepts and that holds -h or --help ends
\* with the usage text on standard output, exit code 0, no error message and
\* no HTTP request, whether or not an ADDRESS is present.
C2_HelpAlwaysWins ==
    (pc = "exit" /\ Got.err = "" /\ HelpAsked)
    => /\ exitcode = 0
       /\ stdout = << [kind |-> "help", text |-> helpstring] >>
       /\ stderr = <<>>
       /\ gets = 0

\* C3: when --show names a MAC that is no key of a non-empty TagSet, the run
\* ends with 'Tag "<MAC>" does not exist' and exit code 2, under waybar, the
\* unset format and influxdb alike.
C3_UnknownMacFailsEveryFormat ==
    (/\ pc = "exit"
     /\ tags # <<>>
     /\ Truthy(ShowMac)
     /\ ShowMac \notin Keys(tags)
     /\ args.format \in {None, "waybar", "influxdb"})
    => /\ exitcode = 2
       /\ Said(UnknownMacText(ShowMac))

\* C4: for a format other than waybar and influxdb, a run whose fetch returns
\* (any TagSet, with or without --show) ends with '<format> is currently not
\* supported' and exit code 2; standard error holds that message and, after
\* a transport failure, the transport error before it, and nothing else: the
\* error never becomes 'Tag ... does not exist'.
C4_UnsupportedFormat ==
    (pc = "exit" /\ FetchReturned /\ args.format \notin {None, "waybar", "influxdb"})
    => /\ exitcode = 2
       /\ stdout = <<>>
       /\ stderr = (IF response.kind = "pycurl.error" THEN << "pycurl.error" >> ELSE <<>>)
                   \o << UnsupportedText(args.format) >>

C4_Witness ==
    /\ pc = "exit"
    /\ args.format = "xml"
    /\ tags # <<>>
    /\ Truthy(ShowMac)
    /\ ShowMac \notin Keys(tags)
    /\ exitcode = 2

\* C5: if an entry of the server's answer lacks a required field, the run
\* ends in the uncaught KeyError under every format: no TagSet is built (no
\* default stands in), nothing is on standard output, and the exit is not
\* the usage error with exit code 2.
C5_MissingFieldIsFatal ==
    (/\ response.kind = "json"
     /\ \E i \in DOMAIN response.entries : ~Complete(response.entries[i].data))
    => /\ pc = "exit"
       /\ exception = "KeyError"
       /\ exitcode = 1
       /\ tags = <<>>
       /\ stdout = <<>>
       /\ stderr = << "Traceback: KeyError" >>

C5_Witness ==
    /\ pc = "exit"
    /\ args.format = "influxdb"
    /\ Len(response.entries) = 2
    /\ Complete(response.entries[1].data)
    /\ ~Complete(response.entries[2].data)
    /\ "time" \in DOMAIN response.entries[2].data
    /\ exception = "KeyError"

\* The display string of each device's reading, written out.
C6_Display(k) ==
    CASE k = "AA:BB" -> "21.50C 40.20% 1013.00hPa"
      [] k = "CC:DD" -> "65.25C 12.34% 1009.87hPa"
      [] OTHER       -> "4.00C 88.00% 998.12hPa"

\* '<name>: <display string>' of the first n entries of the answer, one per
\* line, in the answer's order.
RECURSIVE C6_Tooltip(_)
C6_Tooltip(n) ==
    LET line == response.entries[n].data.name \o ": " \o C6_Display(response.entries[n].key)
    IN  IF n = 0 THEN ""
        ELSE IF n = 1 THEN line
        ELSE C6_Tooltip(n - 1) \o "\n" \o line

C6_Numeric(data) ==
    /\ Complete(data)
    /\ data.temperature.num /\ data.humidity.num /\ data.pressure.num

\* C6: in waybar format with a non-empty TagSet of numeric records, text and
\* percentage come from the record of the effective MAC (the --show MAC when
\* it is a key, else the first key in the server's order), and the tooltip
\* lists every record once, in the server's order, joined by newlines,
\* whichever MAC is selected.
C6_WaybarSelection ==
    (/\ pc = "exit"
     /\ IsWaybar(args.format)
     /\ response.kind = "json"
     /\ response.entries # <<>>
     /\ \A i \in DOMAIN response.entries : C6_Numeric(response.entries[i].data)
     /\ (Truthy(ShowMac) => ShowMac \in ServerKeys))
    => LET sel == IF ShowMac \in ServerKeys THEN ShowMac ELSE response.entries[1].key
       IN  /\ exitcode = 0
           /\ stdout = << [kind |-> "json",
                           obj |-> [text |-> C6_Display(sel),
                                    tooltip |-> C6_Tooltip(Len(response.entries)),
                                    class |-> "ruuvitag",
                                    percentage |-> Reading(sel).humidity]] >>

C6_Witness ==
    /\ pc = "exit"
    /\ IsWaybar(args.format)
    /\ Len(tags) = 2
    /\ ShowMac = tags[2].mac
    /\ exitcode = 0
    /\ Len(stdout) = 1

\* The order of the seven lines of a record; each names the field it prints.
C7_Order ==
    << "temperature", "humidity", "pressure",
       "acceleration_x", "acceleration_y", "acceleration_z", "battery" >>

\* Nanoseconds since the epoch of each device's time, the offset replaced
\* by UTC rather than converted.
C7_Stamp(k) ==
    CASE k = "AA:BB" -> 1000000000
      [] OTHER       -> 2000000000

\* C7: in influxdb format with parseable times the run writes exactly seven
\* lines per record and exits 0: records in the server's order, the seven
\* lines of a record together and in the fixed order, all with the record's
\* key as mac and one timestamp; an empty TagSet (also the one left by a
\* transport failure) gives no line.
C7_InfluxLines ==
    (/\ pc = "exit"
     /\ args.format = "influxdb"
     /\ FetchReturned
     /\ \A i \in DOMAIN response.entries : fromisoformat(response.entries[i].data.time).ok)
    => /\ exitcode = 0
       /\ Len(stdout) = 7 * Len(response.entries)
       /\ \A i \in DOMAIN response.entries : \A j \in 1..7 :
            LET line == stdout[7 * (i - 1) + j]
                e    == response.entries[i]
            IN  /\ line.kind = "line"
                /\ line.measurement = C7_Order[j]
                /\ line.mac = e.key
                /\ line.value = e.data[C7_Order[j]]
                /\ line.timestamp = stdout[7 * (i - 1) + 1].timestamp
                /\ line.timestamp = C7_Stamp(e.key)

C7_Witness ==
    /\ pc = "exit"
    /\ args.format = "influxdb"
    /\ Len(tags) = 2
    /\ tags[1].mac = "CC:DD"
    /\ exitcode = 0
    /\ Len(stdout) = 14

\* Something was rendered, or a format or MAC was rejected.
C8_PastFetch ==
    \/ \E i \in DOMAIN stdout : stdout[i].kind \in {"json", "line"}
    \/ \E i \in DOMAIN stderr :
         \/ stderr[i] = UnsupportedText(args.format)
         \/ stderr[i] = UnknownMacText(args.mac)

\* C8: a run issues at most one GET and never retries: exactly one when
\* argument parsing succeeds, none when the run ends in help or in an
\* argument error; the GET comes before any format or MAC validation and
\* before anything is rendered.
C8_SingleGet ==
    /\ gets \in {0, 1}
    /\ pc \in {"start", "parsed"} => gets = 0 /\ stdout = <<>> /\ stderr = <<>>
    /\ pc = "fetched" => gets = 1 /\ stdout = <<>> /\ exitcode = -1
    /\ pc = "exit" => gets = (IF ParseSucceeds THEN 1 ELSE 0)
    /\ C8_PastFetch => gets = 1

C8_Witness ==
    /\ pc = "exit"
    /\ gets = 1
    /\ response.kind = "pycurl.error"
    /\ Said(UnsupportedText("xml"))

\* C9: influxdb output is all or nothing: when some record of the TagSet has
\* a malformed or placeholder time, the run fails and no line of any record,
\* those before the bad one included, is on standard output.
C9_NoPartialInflux ==
    (/\ pc = "exit"
     /\ args.format = "influxdb"
     /\ tags # <<>>
     /\ \E i \in DOMAIN tags : ~fromisoformat(tags[i].tag.time).ok)
    => /\ exitcode # 0
       /\ stdout = <<>>

\* C10: a run that ends with exit code 2 (unknown option, missing address,
\* unsupported format, unknown MAC) has written nothing to standard output.
C10_Exit2WritesNothing ==
    exitcode = 2 => stdout = <<>>

C10_Witness ==
    /\ exitcode = 2
    /\ IsWaybar(args.format)
    /\ Len(tags) = 2
    /\ Said(UnknownMacText(ShowMac))


====
